---- MODULE Spec2Model ----
(***************************************************************************)
(* subsync (src/main.rs): pair subtitle folders with media files and link  *)
(* or copy the chosen subtitle next to the media file.                     *)
(*                                                                         *)
(* The model holds the file system the program works on, the command line, *)
(* the answers given at the interactive prompts and the position of main.  *)
(* A file name is a sequence of one-character strings, a path is a record  *)
(* [abs, comps] (absolute or relative to the working directory, and its    *)
(* components), and the file system maps the absolute component sequence   *)
(* of every existing entry to that entry.                                  *)
(***************************************************************************)
EXTENDS Integers, Sequences, FiniteSets, TLC

(***************************************************************************)
(* Bounds of the model.                                                    *)
(***************************************************************************)
\* Largest subtitle file size (bytes) drawn in Init.
MaxLen == 2
\* Number of consecutive invocations of the tool with the same inputs.
NumRuns == 2
\* Symbolic links followed while resolving one path before ELOOP.
MaxFollow == 2

(***************************************************************************)
(* Option values.                                                          *)
(***************************************************************************)
None == <<>>
Some(x) == <<x>>
Unwrap(o) == o[1]

(***************************************************************************)
(* Strings: std::ffi::OsString comparison, str::to_lowercase and           *)
(* str::contains on the characters the model uses.                         *)
(***************************************************************************)
Ord(c) ==
  CASE c = "." -> 46 [] c = "1" -> 49 [] c = "2" -> 50 [] c = "B" -> 66
    [] c = "a" -> 97 [] c = "b" -> 98 [] c = "d" -> 100 [] c = "e" -> 101
    [] c = "i" -> 105 [] c = "m" -> 109 [] c = "n" -> 110 [] c = "o" -> 111
    [] c = "r" -> 114 [] c = "s" -> 115 [] c = "t" -> 116 [] c = "u" -> 117
    [] c = "x" -> 120

\* Ord for byte-wise lexicographic order: s < t.
RECURSIVE NameLess(_, _)
NameLess(s, t) ==
  IF t = <<>> THEN FALSE
  ELSE IF s = <<>> THEN TRUE
  ELSE IF Ord(s[1]) # Ord(t[1]) THEN Ord(s[1]) < Ord(t[1])
  ELSE NameLess(Tail(s), Tail(t))

LowerChar(c) == IF c = "B" THEN "b" ELSE c
ToLowercase(s) == [i \in 1..Len(s) |-> LowerChar(s[i])]

Contains(s, sub) ==
  \E i \in 0..(Len(s) - Len(sub)) : SubSeq(s, i + 1, i + Len(sub)) = sub

(***************************************************************************)
(* std::path::Path: file_name, file_stem, extension, parent, join.         *)
(***************************************************************************)
\* Index of the last "." of a file name, 0 when it has none.
LastDot(n) ==
  LET dots == {i \in 1..Len(n) : n[i] = "."}
  IN IF dots = {} THEN 0 ELSE CHOOSE i \in dots : \A j \in dots : j <= i

\* The name itself when it has no "." or only a leading one.
FileStemOfName(n) ==
  IF LastDot(n) <= 1 THEN n ELSE SubSeq(n, 1, LastDot(n) - 1)

ExtensionOfName(n) ==
  IF LastDot(n) <= 1 THEN None ELSE Some(SubSeq(n, LastDot(n) + 1, Len(n)))

SRT == <<"s", "r", "t">>

FileName(p) == p.comps[Len(p.comps)]
FileStem(p) == FileStemOfName(FileName(p))
Extension(p) == ExtensionOfName(FileName(p))
Parent(p) == [abs |-> p.abs, comps |-> SubSeq(p.comps, 1, Len(p.comps) - 1)]
Join(p, n) == [abs |-> p.abs, comps |-> Append(p.comps, n)]

\* Length in bytes of the path as a string (the size lstat reports for a link).
RECURSIVE CompsLen(_)
CompsLen(cs) == IF cs = <<>> THEN 0 ELSE Len(cs[1]) + CompsLen(Tail(cs))
PathStrLen(p) ==
  CompsLen(p.comps) + (IF p.abs THEN Len(p.comps) ELSE Len(p.comps) - 1)

(***************************************************************************)
(* The file system.  Keys are absolute component sequences; the root <<>>  *)
(* is always a directory.                                                  *)
(***************************************************************************)
Cwd == <<>>
NoPath == [abs |-> TRUE, comps |-> <<>>]
DirEntry == [kind |-> "dir", content |-> <<>>, dest |-> NoPath]
FileEntry(c) == [kind |-> "file", content |-> c, dest |-> NoPath]
LinkEntry(d) == [kind |-> "link", content |-> <<>>, dest |-> d]

\* The absolute key a path names, before any link is followed.
Key(p) == IF p.abs THEN p.comps ELSE Cwd \o p.comps
\* Where the link stored at key k points.
LinkKey(f, k) ==
  IF f[k].dest.abs THEN f[k].dest.comps
  ELSE SubSeq(k, 1, Len(k) - 1) \o f[k].dest.comps

\* Follow links at the last component: <<"found", k>>, <<"absent", k>> (k is
\* the key a create would make) or <<"loop", k>>.
RECURSIVE Follow(_, _, _)
Follow(f, k, n) ==
  IF k \notin DOMAIN f THEN <<"absent", k>>
  ELSE IF f[k].kind # "link" THEN <<"found", k>>
  ELSE IF n = 0 THEN <<"loop", k>>
  ELSE Follow(f, LinkKey(f, k), n - 1)

Resolve(f, p) == Follow(f, Key(p), MaxFollow)

\* Path::exists and Path::is_dir follow links (stat).
Exists(f, p) == Resolve(f, p)[1] = "found"
IsDir(f, p) == Exists(f, p) /\ f[Resolve(f, p)[2]].kind = "dir"
IsFile(f, p) == Exists(f, p) /\ f[Resolve(f, p)[2]].kind = "file"
\* lstat: the entry itself.
LExists(f, p) == Key(p) \in DOMAIN f

ParentKey(k) == SubSeq(k, 1, Len(k) - 1)
DirAt(f, k) == k \in DOMAIN f /\ f[k].kind = "dir"

\* std::fs::read_dir: the names of the direct children, None on error.
ReadDir(f, p) ==
  IF ~IsDir(f, p) THEN None
  ELSE LET d == Resolve(f, p)[2]
       IN Some({k[Len(k)] : k \in {q \in DOMAIN f :
                  Len(q) = Len(d) + 1 /\ SubSeq(q, 1, Len(d)) = d}})

\* DirEntry::file_type and DirEntry::metadata do not follow links (lstat).
EntryIsDir(f, p) == LExists(f, p) /\ f[Key(p)].kind = "dir"
EntrySize(f, p) ==
  LET e == f[Key(p)]
  IN IF e.kind = "file" THEN Len(e.content)
     ELSE IF e.kind = "link" THEN PathStrLen(e.dest)
     ELSE 4096

Without(f, k) == [q \in DOMAIN f \ {k} |-> f[q]]
With(f, k, e) == [q \in DOMAIN f \cup {k} |-> IF q = k THEN e ELSE f[q]]

\* Every file-system call returns [ok, fs]: whether it succeeded and the
\* file system it leaves.

\* std::fs::remove_file (unlink): removes the entry itself, never a directory.
RemoveFile(f, p) ==
  IF LExists(f, p) /\ f[Key(p)].kind # "dir"
  THEN [ok |-> TRUE, fs |-> Without(f, Key(p))]
  ELSE [ok |-> FALSE, fs |-> f]

\* std::os::unix::fs::symlink(original, link): fails when anything is at link.
Symlink(f, original, link) ==
  IF ~LExists(f, link) /\ DirAt(f, ParentKey(Key(link)))
  THEN [ok |-> TRUE, fs |-> With(f, Key(link), LinkEntry(original))]
  ELSE [ok |-> FALSE, fs |-> f]

\* std::fs::copy(from, to): from must resolve to a regular file; to is opened
\* with create and truncate, following links, before from is read (so a file
\* copied onto itself is left empty, as the documentation of std::fs::copy
\* warns).
Copy(f, from, to) ==
  LET src == Resolve(f, from)
      dst == Resolve(f, to)
  IN IF ~IsFile(f, from) THEN [ok |-> FALSE, fs |-> f]
     ELSE IF dst[1] = "found" /\ f[dst[2]].kind = "file"
       THEN LET opened == With(f, dst[2], FileEntry(<<>>))
            IN [ok |-> TRUE,
                fs |-> With(opened, dst[2], FileEntry(opened[src[2]].content))]
     ELSE IF dst[1] = "absent" /\ DirAt(f, ParentKey(dst[2]))
       THEN [ok |-> TRUE, fs |-> With(f, dst[2], FileEntry(f[src[2]].content))]
     ELSE [ok |-> FALSE, fs |-> f]

(***************************************************************************)
(* Program types (src/main.rs lines 30-51).                                *)
(***************************************************************************)
SubtitleSelectionStrategy == {"Alphabetical", "Size", "Manual"}
Mode == {"Season", "Single"}

(***************************************************************************)
(* main, lines 56-66: mode selection.  None when read_dir(input) fails.    *)
(***************************************************************************)
\* Mutant: `&&` where line 56 has `||`.
SelectModeBoth(f, c) ==
  IF ReadDir(f, c.input) = None THEN None
  ELSE IF IsDir(f, c.output)
          /\ \A n \in Unwrap(ReadDir(f, c.input)) : EntryIsDir(f, Join(c.input, n))
       THEN Some("Season")
       ELSE Some("Single")

SelectMode(f, c) ==
  IF IsDir(f, c.output) THEN Some("Season")
  ELSE IF ReadDir(f, c.input) = None THEN None
  ELSE IF \A n \in Unwrap(ReadDir(f, c.input)) : EntryIsDir(f, Join(c.input, n))
       THEN Some("Season")
       ELSE Some("Single")

(***************************************************************************)
(* main, lines 79-105: the destination index.  A HashMap collected from    *)
(* read_dir keeps, for a stem that several children share, the child read  *)
(* last, and read_dir's order is arbitrary: every such map is possible.    *)
(***************************************************************************)
\* Mutant: the filter of line 82 without its extension test.
KeepDestinationAnyExtension(f, p) == ~IsDir(f, p)

\* Line 82: the filter on the children of the output directory.
KeepDestination(f, p) == ~IsDir(f, p) /\ Extension(p) # Some(SRT)

DestinationChildren(f, output) ==
  {Join(output, n) : n \in {m \in Unwrap(ReadDir(f, output)) :
                               KeepDestination(f, Join(output, m))}}

DestinationStems(f, output) ==
  IF IsDir(f, output)
  THEN LET kept == DestinationChildren(f, output)
           stems == {FileStem(p) : p \in kept}
       IN {m \in [stems -> kept] : \A s \in stems : FileStem(m[s]) = s}
  ELSE {FileStem(output) :> output}

\* Mutant: the check of line 107 left out.
NoDestinationNever(index) == FALSE

\* Line 107: destination_stems.is_empty().
NoDestination(index) == DOMAIN index = {}

(***************************************************************************)
(* synchronize_folder, lines 223-331.                                      *)
(***************************************************************************)
\* Lines 232-241: the subtitle files of the sub directory that are retained.
KeepSubtitle(n, required_text) ==
  /\ ExtensionOfName(n) = Some(SRT)
  /\ (required_text = None \/ Contains(ToLowercase(n), Unwrap(required_text)))

SubtitleFiles(f, sub_dir, required_text) ==
  {n \in Unwrap(ReadDir(f, sub_dir)) : KeepSubtitle(n, required_text)}

\* Lines 257-266: sort_unstable_by_key.  Every arrangement of the files that
\* is ascending in the key; entries with equal keys come in any order.
Arrangements(S) ==
  {s \in [1..Cardinality(S) -> S] : \A i, j \in 1..Cardinality(S) : i # j => s[i] # s[j]}

SortKeyLeq(f, sub_dir, sort_strat, a, b) ==
  IF sort_strat = "Alphabetical" THEN a = b \/ NameLess(a, b)
  ELSE EntrySize(f, Join(sub_dir, a)) <= EntrySize(f, Join(sub_dir, b))

Sorted(f, sub_dir, files, sort_strat) ==
  {s \in Arrangements(files) :
     \A i \in 1..(Len(s) - 1) : SortKeyLeq(f, sub_dir, sort_strat, s[i], s[i + 1])}

\* Mutant: the Size strategy takes the first of the sorted list, not the last.
SelectedFirst(sorted, strategy) ==
  IF strategy = "Manual" THEN {Some(sorted[i]) : i \in 1..Len(sorted)} \cup {None}
  ELSE {Some(sorted[1])}

\* Lines 268-303: the file names the selection can yield from one sorted
\* list; None when the Manual prompt is abandoned (line 296).
Selected(sorted, strategy) ==
  IF strategy = "Alphabetical" THEN {Some(sorted[1])}
  ELSE IF strategy = "Size" THEN {Some(sorted[Len(sorted)])}
  ELSE {Some(sorted[i]) : i \in 1..Len(sorted)} \cup {None}

\* Lines 305-314: the subtitle path beside the media file.
TargetName(dest_file) ==
  Join(Parent(dest_file), FileStem(dest_file) \o <<".">> \o SRT)

\* Lines 316-322: the pre-existing target is deleted under overwrite.
ReplaceTarget(f, target_name, overwrite) ==
  IF Exists(f, target_name) /\ overwrite
  THEN RemoveFile(f, target_name)
  ELSE [ok |-> TRUE, fs |-> f]

\* Lines 324-328: copy or symlink.
Transfer(f, source, target_name, copy_sub) ==
  IF copy_sub THEN Copy(f, source, target_name)
  ELSE Symlink(f, source, target_name)

\* The outcomes of one call: [result, fs, retained, selected].
Outcome(result, f, retained, selected) ==
  [result |-> result, fs |-> f, retained |-> retained, selected |-> selected]

SynchronizeFolder(f, sub_dir, dest_file, strategy, sort_strat, copy_sub, overwrite, required_text) ==
  IF ReadDir(f, sub_dir) = None THEN {Outcome("IoError", f, {}, None)}
  ELSE LET files == SubtitleFiles(f, sub_dir, required_text)
           target_name == TargetName(dest_file)
       IN IF files = {} THEN {Outcome("NoCandidates", f, {}, None)}
          ELSE {IF sel = None
                  THEN Outcome("Cancelled", f, files, None)
                  ELSE LET removed == ReplaceTarget(f, target_name, overwrite)
                           done == Transfer(removed.fs, Join(sub_dir, Unwrap(sel)),
                                            target_name, copy_sub)
                       IN IF ~removed.ok
                            THEN Outcome("IoError", removed.fs, files, sel)
                          ELSE IF ~done.ok
                            THEN Outcome("IoError", done.fs, files, sel)
                          ELSE Outcome("Ok", done.fs, files, sel)
                : sel \in UNION {Selected(s, strategy) :
                                   s \in Sorted(f, sub_dir, files, sort_strat)}}

\* Mutant: the result of synchronize_folder is dropped instead of propagated.
PropagatesNever(result) == FALSE

\* Lines 159-167 and 174-182: the `?` after synchronize_folder.
Propagates(result) == result # "Ok"

(***************************************************************************)
(* The file systems and command lines the runs start from.                 *)
(***************************************************************************)
InDir == <<"i", "n">>
OutDir == <<"o", "u", "t">>
E1 == <<"e", "1">>
E2 == <<"e", "2">>
SubA == <<"a", ".", "s", "r", "t">>
SubB == <<"B", ".", "s", "r", "t">>
Media(stem) == stem \o <<".", "m">>
AbsPath(comps) == [abs |-> TRUE, comps |-> comps]
RelPath(comps) == [abs |-> FALSE, comps |-> comps]

Content(n) == [i \in 1..n |-> 1]
Contents == {Content(n) : n \in 0..MaxLen}
\* What an earlier subtitle beside the media holds, and what a media file holds.
OldContent == <<0>>
MediaContent == <<7>>

\* The input side: two episode folders; e1 holds a.srt (of any size), B.srt
\* (one byte), both or neither, e2 holds a.srt.
InputSubtitles ==
  UNION {[names -> Contents] : names \in SUBSET {SubA}}

InputTrees ==
  {[k \in {<<>>, <<InDir>>, <<InDir, E1>>, <<InDir, E2>>, <<InDir, E2, SubA>>}
       \cup {<<InDir, E1, n>> : n \in DOMAIN subs \cup more} |->
      IF Len(k) <= 2 THEN DirEntry
      ELSE IF k[2] = E2 \/ k[3] = SubB THEN FileEntry(Content(1))
      ELSE FileEntry(subs[k[3]])]
   : subs \in InputSubtitles, more \in {{}, {SubB}}}

\* The output side: the children of /out besides the target e1.srt.
OutLayouts ==
  { {},
    {<<Media(E1), FileEntry(MediaContent)>>},
    {<<Media(E2), FileEntry(MediaContent)>>},
    {<<Media(E1), FileEntry(MediaContent)>>, <<Media(E2), FileEntry(MediaContent)>>},
    {<<Media(E1), FileEntry(MediaContent)>>, <<E1 \o <<".", "x">>, FileEntry(MediaContent)>>,
     <<<<"d">>, DirEntry>>, <<<<".", "s", "r", "t">>, FileEntry(MediaContent)>>,
     <<<<"n">>, FileEntry(MediaContent)>>, <<E2 \o <<".">> \o SRT, FileEntry(OldContent)>>} }

\* What is at /out/e1.srt before the first run: nothing, a regular file, or a
\* link an earlier run made to /in/e1/a.srt.
OldTargets ==
  {None, Some(FileEntry(OldContent)), Some(LinkEntry(AbsPath(<<InDir, E1, SubA>>)))}

OutputTree(layout, old) ==
  LET names == {c[1] : c \in layout}
      entry(n) == (CHOOSE c \in layout : c[1] = n)[2]
      target == E1 \o <<".">> \o SRT
  IN [k \in {<<OutDir>>} \cup {<<OutDir, n>> : n \in names}
            \cup (IF old = None THEN {} ELSE {<<OutDir, target>>}) |->
        IF Len(k) = 1 THEN DirEntry
        ELSE IF k[2] = target THEN Unwrap(old)
        ELSE entry(k[2])]

InitialFileSystems ==
  {i @@ OutputTree(layout, old) :
     i \in InputTrees, layout \in OutLayouts, old \in OldTargets}

CommandLines ==
  [input : {AbsPath(<<InDir>>), RelPath(<<InDir>>),
            AbsPath(<<InDir, E1>>), RelPath(<<InDir, E1>>)},
   output : {AbsPath(<<OutDir>>), AbsPath(<<OutDir, Media(E1)>>)},
   copy : BOOLEAN,
   overwrite : BOOLEAN]

\* What can be typed at the keyword prompt (line 144).
Keywords == {<<>>, <<"B">>}

(***************************************************************************)
(* State.                                                                  *)
(***************************************************************************)
VARIABLES
  fs,                 \* the file system
  cli,                \* Cli: input, output, copy, overwrite
  run,                \* which invocation of the tool this is
  pc,                 \* where main is
  mode,               \* Mode, line 56
  destination_stems,  \* line 79
  num_stems,          \* line 112
  answers,            \* what is answered at the prompts of lines 124-144
  strategy,           \* line 124
  sort_strat,         \* line 134
  required_text,      \* line 145
  entries,            \* line 154: the sorted entries the loop has yet to visit
  prompts,            \* the prompts issued so far in this run
  attempts,           \* the calls of synchronize_folder made so far in this run
  outcome,            \* how main ended
  report,             \* what lines 188-203 printed
  start_fs,           \* the file system this run started from
  previous            \* the run before this one: its attempts, outcome, file system

vars == <<fs, cli, run, pc, mode, destination_stems, num_stems, answers, strategy,
          sort_strat, required_text, entries, prompts, attempts, outcome, report,
          start_fs, previous>>

NoReport == [printed |-> FALSE, done |-> FALSE, count |-> 0, remaining |-> {}]
NoAnswers == [strategy |-> None, sort |-> None, keyword |-> None]
NoPrevious == [attempts |-> <<>>, outcome |-> "none", fs |-> <<>>]

Init ==
  /\ fs \in InitialFileSystems
  /\ cli \in CommandLines
  /\ run = 1
  /\ pc = "start"
  /\ mode = "unset"
  /\ destination_stems = <<>>
  /\ num_stems = 0
  /\ answers = NoAnswers
  /\ strategy = "unset"
  /\ sort_strat = "unset"
  /\ required_text = None
  /\ entries = <<>>
  /\ prompts = <<>>
  /\ attempts = <<>>
  /\ outcome = "running"
  /\ report = NoReport
  /\ start_fs = fs
  /\ previous = NoPrevious

\* main returns Err: nothing more is done.
Fail(why) ==
  /\ pc' = "done"
  /\ outcome' = why

\* A prompt of inquire: one of the options, or None when it is abandoned.  A
\* later run of the tool is given the answers of the first.
Answers(name, options) ==
  IF answers[name] = None THEN {Some(o) : o \in options} \cup {None}
  ELSE {Unwrap(answers[name])}

(***************************************************************************)
(* main, lines 56-122: mode, destination index, the empty check.           *)
(***************************************************************************)
ReadDestination ==
  /\ pc = "start"
  /\ IF SelectMode(fs, cli) = None
     THEN /\ Fail("IoError")
          /\ UNCHANGED <<mode, destination_stems, num_stems>>
     ELSE \E index \in DestinationStems(fs, cli.output) :
            /\ mode' = Unwrap(SelectMode(fs, cli))
            /\ destination_stems' = index
            /\ IF NoDestination(index)
               THEN Fail("NoFiles") /\ UNCHANGED num_stems
               ELSE /\ num_stems' = Cardinality(DOMAIN index)
                    /\ pc' = "strategy"
                    /\ UNCHANGED outcome
  /\ UNCHANGED <<fs, cli, run, answers, strategy, sort_strat, required_text,
                 entries, prompts, attempts, report, start_fs, previous>>

(***************************************************************************)
(* main, lines 124-132: the strategy prompt.                               *)
(***************************************************************************)
PromptStrategy ==
  /\ pc = "strategy"
  /\ \E a \in Answers("strategy", SubtitleSelectionStrategy) :
       /\ answers' = [answers EXCEPT !.strategy = Some(a)]
       /\ prompts' = Append(prompts, "strategy")
       /\ IF a = None
          THEN Fail("Cancelled") /\ UNCHANGED <<strategy, sort_strat>>
          ELSE /\ strategy' = Unwrap(a)
               /\ sort_strat' = IF Unwrap(a) = "Manual" THEN sort_strat ELSE Unwrap(a)
               /\ pc' = IF Unwrap(a) = "Manual" THEN "sort" ELSE "keyword"
               /\ UNCHANGED outcome
  /\ UNCHANGED <<fs, cli, run, mode, destination_stems, num_stems, required_text,
                 entries, attempts, report, start_fs, previous>>

(***************************************************************************)
(* main, lines 134-139: the display sort prompt of the Manual strategy.    *)
(***************************************************************************)
PromptSort ==
  /\ pc = "sort"
  /\ \E a \in Answers("sort", {"Alphabetical", "Size"}) :
       /\ answers' = [answers EXCEPT !.sort = Some(a)]
       /\ prompts' = Append(prompts, "sort")
       /\ IF a = None
          THEN Fail("Cancelled") /\ UNCHANGED sort_strat
          ELSE sort_strat' = Unwrap(a) /\ pc' = "keyword" /\ UNCHANGED outcome
  /\ UNCHANGED <<fs, cli, run, mode, destination_stems, num_stems, strategy,
                 required_text, entries, attempts, report, start_fs, previous>>

(***************************************************************************)
(* main, lines 144-149: the keyword prompt.                                *)
(***************************************************************************)
PromptKeyword ==
  /\ pc = "keyword"
  /\ \E a \in Answers("keyword", Keywords) :
       /\ answers' = [answers EXCEPT !.keyword = Some(a)]
       /\ prompts' = Append(prompts, "keyword")
       /\ IF a = None
          THEN Fail("Cancelled") /\ UNCHANGED required_text
          ELSE /\ required_text' =
                    IF Unwrap(a) = <<>> THEN None ELSE Some(ToLowercase(Unwrap(a)))
               /\ pc' = "match"
               /\ UNCHANGED outcome
  /\ UNCHANGED <<fs, cli, run, mode, destination_stems, num_stems, strategy,
                 sort_strat, entries, attempts, report, start_fs, previous>>

(***************************************************************************)
(* main, lines 154-155: Season mode reads and sorts the input entries.     *)
(***************************************************************************)
RECURSIVE SortByName(_)
SortByName(S) ==
  IF S = {} THEN <<>>
  ELSE LET least == CHOOSE x \in S : \A y \in S : x = y \/ NameLess(x, y)
       IN <<least>> \o SortByName(S \ {least})

SeasonReadInput ==
  /\ pc = "match"
  /\ mode = "Season"
  /\ IF ReadDir(fs, cli.input) = None
     THEN Fail("IoError") /\ UNCHANGED entries
     ELSE /\ entries' = SortByName(Unwrap(ReadDir(fs, cli.input)))
          /\ pc' = "loop"
          /\ UNCHANGED outcome
  /\ UNCHANGED <<fs, cli, run, mode, destination_stems, num_stems, answers,
                 strategy, sort_strat, required_text, prompts, attempts, report,
                 start_fs, previous>>

\* What the model keeps of one call of synchronize_folder.
Attempt(sub_dir, dest_file, o) ==
  [sub_dir |-> sub_dir, dest_file |-> dest_file, target |-> TargetName(dest_file),
   dest_existed |-> LExists(fs, dest_file), result |-> o.result,
   retained |-> o.retained, selected |-> o.selected]

Remove(index, key) == [s \in DOMAIN index \ {key} |-> index[s]]

(***************************************************************************)
(* main, lines 156-169: one turn of the Season loop.                       *)
(***************************************************************************)
SeasonEntry ==
  /\ pc = "loop"
  /\ entries # <<>>
  /\ LET dir_name == Head(entries)
         sub_dir == Join(cli.input, dir_name)
     IN IF dir_name \in DOMAIN destination_stems
        THEN \E o \in SynchronizeFolder(fs, sub_dir, destination_stems[dir_name],
                        strategy, sort_strat, cli.copy, cli.overwrite, required_text) :
               /\ destination_stems' = Remove(destination_stems, dir_name)
               /\ fs' = o.fs
               /\ attempts' = Append(attempts,
                                Attempt(sub_dir, destination_stems[dir_name], o))
               /\ prompts' = IF strategy = "Manual" /\ o.retained # {}
                             THEN Append(prompts, "choice") ELSE prompts
               /\ IF Propagates(o.result)
                  THEN Fail(o.result) /\ UNCHANGED entries
                  ELSE entries' = Tail(entries) /\ UNCHANGED <<pc, outcome>>
        ELSE /\ entries' = Tail(entries)
             /\ UNCHANGED <<fs, destination_stems, attempts, prompts, pc, outcome>>
  /\ UNCHANGED <<cli, run, mode, num_stems, answers, strategy, sort_strat,
                 required_text, report, start_fs, previous>>

(***************************************************************************)
(* main, lines 171-185: Single mode.                                       *)
(***************************************************************************)
SinglePairing ==
  /\ pc = "match"
  /\ mode = "Single"
  /\ \E key \in DOMAIN destination_stems :
       \E o \in SynchronizeFolder(fs, cli.input, destination_stems[key],
                  strategy, sort_strat, cli.copy, cli.overwrite, required_text) :
         /\ fs' = o.fs
         /\ attempts' = Append(attempts, Attempt(cli.input, destination_stems[key], o))
         /\ prompts' = IF strategy = "Manual" /\ o.retained # {}
                       THEN Append(prompts, "choice") ELSE prompts
         /\ IF Propagates(o.result)
            THEN Fail(o.result) /\ UNCHANGED destination_stems
            ELSE /\ destination_stems' = <<>>
                 /\ pc' = "report"
                 /\ UNCHANGED outcome
  /\ UNCHANGED <<cli, run, mode, num_stems, answers, strategy, sort_strat,
                 required_text, entries, report, start_fs, previous>>

(***************************************************************************)
(* main, lines 188-204: the final report.                                  *)
(***************************************************************************)
Report ==
  /\ \/ pc = "report"
     \/ pc = "loop" /\ entries = <<>>
  /\ report' = [printed |-> TRUE,
                done |-> NoDestination(destination_stems),
                count |-> num_stems - Cardinality(DOMAIN destination_stems),
                remaining |-> DOMAIN destination_stems]
  /\ pc' = "done"
  /\ outcome' = "Ok"
  /\ UNCHANGED <<fs, cli, run, mode, destination_stems, num_stems, answers,
                 strategy, sort_strat, required_text, entries, prompts, attempts,
                 start_fs, previous>>

(***************************************************************************)
(* The tool is invoked again with the same command line and answers.       *)
(***************************************************************************)
Rerun ==
  /\ pc = "done"
  /\ run < NumRuns
  /\ run' = run + 1
  /\ previous' = [attempts |-> attempts, outcome |-> outcome, fs |-> fs]
  /\ start_fs' = fs
  /\ pc' = "start"
  /\ mode' = "unset"
  /\ destination_stems' = <<>>
  /\ num_stems' = 0
  /\ strategy' = "unset"
  /\ sort_strat' = "unset"
  /\ required_text' = None
  /\ entries' = <<>>
  /\ prompts' = <<>>
  /\ attempts' = <<>>
  /\ outcome' = "running"
  /\ report' = NoReport
  /\ UNCHANGED <<fs, cli, answers>>

Next ==
  \/ ReadDestination
  \/ PromptStrategy
  \/ PromptSort
  \/ PromptKeyword
  \/ SeasonReadInput
  \/ SeasonEntry
  \/ SinglePairing
  \/ Report
  \/ Rerun

Spec == Init /\ [][Next]_vars

(***************************************************************************)
(* Properties.                                                             *)
(***************************************************************************)
\* The entry stored at a path itself (no link followed), None when absent.
EntryAt(f, p) == IF LExists(f, p) THEN Some(f[Key(p)]) ELSE None

\* The stems of the destination index as main built it in this run: those
\* still in it and those taken out of it for a pairing.
BuiltKeys ==
  DOMAIN destination_stems \cup
    {FileStem(attempts[i].dest_file) : i \in 1..Len(attempts)}

SucceededStems ==
  {FileStem(attempts[i].dest_file) :
     i \in {j \in 1..Len(attempts) : attempts[j].result = "Ok"}}

\* This step is one call of synchronize_folder; Made is what it recorded.
PairingStep == Len(attempts') = Len(attempts) + 1
Made == attempts'[Len(attempts')]

\* C1: with overwrite disabled, a pairing whose target subtitle path already
\* exists (regular file or symbolic link) leaves that entry as it was and ends
\* in failure, in copy mode and in symlink mode alike.  Stated for pairings
\* whose media file exists, so that a violation does not rest on C9.
C1_ExistingTargetKeptAndFailed ==
  [][(PairingStep /\ Made.dest_existed /\ ~cli.overwrite /\ LExists(fs, Made.target))
       => (EntryAt(fs', Made.target) = EntryAt(fs, Made.target)
           /\ Made.result # "Ok")]_vars

\* C2: in Season mode a pairing that fails with NoCandidates does not abort
\* the run: every input entry whose name is a key of the destination index is
\* attempted and the final report is printed.  Stated for runs whose media
\* files exist, so that a violation does not rest on C9.
C2_NoCandidatesDoesNotAbort ==
  (pc = "done" /\ mode = "Season"
     /\ (\A j \in 1..Len(attempts) : attempts[j].dest_existed)
     /\ \E i \in 1..Len(attempts) : attempts[i].result = "NoCandidates")
  => (report.printed
      /\ \A n \in Unwrap(ReadDir(fs, cli.input)) : n \notin DOMAIN destination_stems)

\* The choices made at the Manual prompts of this run are those of the run
\* before, as far as both runs got to ask.
SameChoices ==
  strategy = "Manual" =>
    \A i \in 1..Len(attempts) :
      (i <= Len(previous.attempts) /\ attempts[i].retained # {}
         /\ previous.attempts[i].retained # {})
      => attempts[i].selected = previous.attempts[i].selected

\* C3: with overwrite enabled, a second run with the same inputs leaves every
\* target subtitle path as the first run left it, and does not fail in a
\* pairing where the first run succeeded.  Stated for runs whose media files
\* exist, so that a violation does not rest on C9.
C3_OverwriteIdempotent ==
  (pc = "done" /\ run > 1 /\ cli.overwrite /\ SameChoices
     /\ (\A j \in 1..Len(previous.attempts) : previous.attempts[j].dest_existed))
  => (/\ \A i \in 1..Len(previous.attempts) :
           /\ EntryAt(fs, previous.attempts[i].target)
                = EntryAt(previous.fs, previous.attempts[i].target)
           /\ previous.attempts[i].result = "Ok"
                => (i <= Len(attempts) /\ attempts[i].result = "Ok")
      /\ \A i \in 1..Len(attempts) :
           EntryAt(fs, attempts[i].target) = EntryAt(previous.fs, attempts[i].target))

\* C4: when the destination index built from the output path is empty, the
\* run ends with the error "No files" with no prompt issued, no pairing
\* attempted, no report printed and the file system as the run found it.
C4_EmptyDestinationFailsFirst ==
  (mode # "unset" /\ BuiltKeys = {})
  => (pc = "done" /\ outcome = "NoFiles" /\ prompts = <<>> /\ attempts = <<>>
      /\ ~report.printed /\ fs = start_fs)

C4_Witness ==
  /\ outcome = "NoFiles"
  /\ IsDir(fs, cli.output)
  /\ Unwrap(ReadDir(fs, cli.output)) # {}

\* The names of the direct children of the output directory that are neither
\* directories nor files with the extension "srt".
MediaNames ==
  {k[Len(k)] : k \in {q \in DOMAIN fs :
      /\ Len(q) = Len(Key(cli.output)) + 1
      /\ SubSeq(q, 1, Len(q) - 1) = Key(cli.output)
      /\ fs[q].kind # "dir"
      /\ ExtensionOfName(q[Len(q)]) # Some(SRT)}}

\* C5: for an output directory, the keys of the destination index as built
\* are the file stems of its direct children that are neither directories nor
\* "srt" files, each key is mapped to the path of such a child with that stem,
\* and the index is not empty when there is such a child.
C5_IndexKeysAreMediaStems ==
  (IsDir(fs, cli.output) /\ (pc = "strategy" \/ outcome = "NoFiles"))
  => (/\ DOMAIN destination_stems = {FileStemOfName(n) : n \in MediaNames}
      /\ \A s \in DOMAIN destination_stems :
           \E n \in MediaNames :
             FileStemOfName(n) = s /\ destination_stems[s] = Join(cli.output, n)
      /\ MediaNames # {} => DOMAIN destination_stems # {})

C5_Witness ==
  /\ pc = "strategy"
  /\ IsDir(fs, cli.output)
  /\ Cardinality(DOMAIN destination_stems) < Cardinality(MediaNames)
  /\ \E n \in Unwrap(ReadDir(fs, cli.output)) : EntryIsDir(fs, Join(cli.output, n))
  /\ \E n \in Unwrap(ReadDir(fs, cli.output)) : ExtensionOfName(n) = Some(SRT)

\* The names in a sub directory that end in ".srt" and, when a keyword was
\* given, contain it once lowercased.
RetainedNames(sub_dir) ==
  {n \in Unwrap(ReadDir(fs, sub_dir)) :
     /\ Len(n) > 4
     /\ SubSeq(n, Len(n) - 3, Len(n)) = <<".">> \o SRT
     /\ required_text # None => Contains(ToLowercase(n), Unwrap(required_text))}

\* C6: under the Size strategy the candidate a pairing selects is one of the
\* retained (extension- and keyword-filtered) files of the sub directory and
\* no retained file is larger than it.
C6_SizePicksLargest ==
  [][(PairingStep /\ strategy = "Size" /\ Made.selected # None)
       => (/\ Made.retained = RetainedNames(Made.sub_dir)
           /\ Unwrap(Made.selected) \in RetainedNames(Made.sub_dir)
           /\ \A n \in RetainedNames(Made.sub_dir) :
                EntrySize(fs, Join(Made.sub_dir, Unwrap(Made.selected)))
                  >= EntrySize(fs, Join(Made.sub_dir, n)))]_vars

C6_Witness ==
  /\ strategy = "Size"
  /\ Len(attempts) = 1
  /\ attempts[1].result = "Ok"
  /\ attempts[1].retained = {SubA, SubB}
  /\ attempts[1].selected = Some(SubA)
  /\ EntrySize(fs, Join(attempts[1].sub_dir, SubA)) > EntrySize(fs, Join(attempts[1].sub_dir, SubB))

\* C7: in a Season run that prints the final report, the printed count is the
\* number of pairings that succeeded, every destination stem that was not
\* successfully paired is listed as remaining, and "Done" is printed only when
\* every destination stem was successfully paired.
C7_ReportCountsSuccesses ==
  (pc = "done" /\ mode = "Season" /\ report.printed)
  => (/\ report.count = Cardinality({i \in 1..Len(attempts) : attempts[i].result = "Ok"})
      /\ \A s \in BuiltKeys : s \notin SucceededStems => s \in report.remaining
      /\ report.done => BuiltKeys \subseteq SucceededStems)

C7_Witness ==
  /\ pc = "done"
  /\ mode = "Season"
  /\ report.printed
  /\ report.count = 1
  /\ report.remaining # {}

\* C8: a pairing changes no file-system entry other than the target subtitle
\* path: every entry of the source sub directory and the destination media
\* file exist and hold after the pairing what they did before it.  Stated for
\* pairings whose media file exists, so that a violation does not rest on C9.
C8_OnlyTargetChanges ==
  [][(PairingStep /\ Made.dest_existed)
       => \A k \in DOMAIN fs \cup DOMAIN fs' :
            (/\ k # Key(Made.target)
             /\ \/ k = Key(Made.dest_file)
                \/ (Len(k) = Len(Key(Made.sub_dir)) + 1
                    /\ SubSeq(k, 1, Len(k) - 1) = Key(Made.sub_dir)))
            => (k \in DOMAIN fs /\ k \in DOMAIN fs' /\ fs'[k] = fs[k])]_vars

\* C9: at the start of every pairing attempt the destination media path taken
\* from the index refers to an existing file-system entry.
C9_DestinationExists ==
  \A i \in 1..Len(attempts) : attempts[i].dest_existed

\* C10: when Single mode is selected the output path is not a directory, and
\* up to and at the single pairing the destination index holds exactly one
\* entry, whose path is the output path.
C10_SingleHasOneEntry ==
  mode = "Single"
  => (/\ ~IsDir(fs, cli.output)
      /\ pc \in {"strategy", "sort", "keyword", "match"}
           => (/\ Cardinality(DOMAIN destination_stems) = 1
               /\ \A s \in DOMAIN destination_stems : destination_stems[s] = cli.output)
      /\ \A i \in 1..Len(attempts) : attempts[i].dest_file = cli.output)

C10_Witness ==
  /\ mode = "Single"
  /\ pc = "report"
  /\ Len(attempts) = 1
  /\ attempts[1].result = "Ok"
  /\ attempts[1].dest_file = cli.output

====
